---- MODULE Spec2Model ----
(***************************************************************************)
(* A model of rs-weathercli: the library client (weatherapi/src/lib.rs:    *)
(* WeatherAPI::new, prepare_url, fetch, map_response_err) and the inline   *)
(* version (src/main.rs: main, get_data).                                  *)
(*                                                                         *)
(* Text is a sequence of one-character strings.  The printable ASCII       *)
(* characters stand for themselves; NonAscii is the atom of one non-ASCII  *)
(* character (U+00E9, UTF-8 bytes C3 A9).                                  *)
(***************************************************************************)
EXTENDS Integers, Sequences, FiniteSets, TLC

VARIABLES
    given,        \* the (api_key, location) arguments handed to WeatherAPI::new / the env of main
    api_key,      \* WeatherAPI.api_key
    location,     \* WeatherAPI.location
    net,          \* what the transport answers to the GET of the current call
    history,      \* for each earlier fetch call on this client, whether it succeeded
    pc,           \* position of the current fetch call
    url,          \* fetch: local `url`
    response,     \* fetch: local `response`
    code,         \* fetch: the argument handed to map_response_err
    result,       \* fetch: the value returned
    gets,         \* HTTP GETs issued by the current fetch call
    trace,        \* the steps the current fetch call has run, in order
    branch,       \* which arm of `match response.status()` was entered
    constructed,  \* whether a Response value was built in the current call
    ipc,          \* position of the inline program (main / get_data)
    iurl,         \* main: local `url`
    itext,        \* get_data: local `resp`
    iresult,      \* get_data: the value returned
    mpc,          \* position of a direct map_response_err call
    mcode,        \* map_response_err: its argument
    mresult       \* map_response_err: the value returned

vars == << given, api_key, location, net, history, pc, url, response, code, result,
           gets, trace, branch, constructed, ipc, iurl, itext, iresult,
           mpc, mcode, mresult >>

(***************************************************************************)
(* Bounds of the model.                                                    *)
(***************************************************************************)
MaxKeyLen == 1
MaxLocLen == 1
MaxCalls == 3
MaxCodeLen == 4

(***************************************************************************)
(* Text helpers.                                                           *)
(***************************************************************************)
Ascii ==
  << " ", "!", "\"", "#", "$", "%", "&", "'", "(", ")", "*", "+",
     ",", "-", ".", "/", "0", "1", "2", "3", "4", "5", "6", "7",
     "8", "9", ":", ";", "<", "=", ">", "?", "@", "A", "B", "C",
     "D", "E", "F", "G", "H", "I", "J", "K", "L", "M", "N", "O",
     "P", "Q", "R", "S", "T", "U", "V", "W", "X", "Y", "Z", "[",
     "\\", "]", "^", "_", "U+0060", "a", "b", "c", "d", "e", "f", "g",
     "h", "i", "j", "k", "l", "m", "n", "o", "p", "q", "r", "s",
     "t", "u", "v", "w", "x", "y", "z", "{", "|", "}", "~" >>

AsciiChars == { Ascii[i] : i \in DOMAIN Ascii }

NonAscii == "U+00E9"
Replacement == "U+FFFD"
Control == "U+0000..1F"

ByteOf(c) == 31 + (CHOOSE i \in DOMAIN Ascii : Ascii[i] = c)

CharOf(b) == IF b >= 32 /\ b <= 126 THEN Ascii[b - 31] ELSE Control

\* the UTF-8 bytes of one character
Utf8(c) == IF c = NonAscii THEN << 195, 169 >>
           ELSE IF c = Replacement THEN << 239, 191, 189 >>
           ELSE << ByteOf(c) >>

RECURSIVE Utf8Bytes(_)
Utf8Bytes(s) == IF s = << >> THEN << >> ELSE Utf8(Head(s)) \o Utf8Bytes(Tail(s))

\* String::from_utf8_lossy
RECURSIVE Utf8Lossy(_)
Utf8Lossy(bs) ==
    IF bs = << >> THEN << >>
    ELSE IF Head(bs) < 128 THEN << CharOf(Head(bs)) >> \o Utf8Lossy(Tail(bs))
    ELSE IF Len(bs) >= 2 /\ bs[1] = 195 /\ bs[2] = 169
         THEN << NonAscii >> \o Utf8Lossy(Tail(Tail(bs)))
    ELSE IF Len(bs) >= 3 /\ bs[1] = 239 /\ bs[2] = 191 /\ bs[3] = 189
         THEN << Replacement >> \o Utf8Lossy(Tail(Tail(Tail(bs))))
    ELSE << Replacement >> \o Utf8Lossy(Tail(bs))

HexDigits == << "0", "1", "2", "3", "4", "5", "6", "7",
                "8", "9", "A", "B", "C", "D", "E", "F" >>

IsHex(c) == \/ c \in { HexDigits[i] : i \in DOMAIN HexDigits }
            \/ c \in { "a", "b", "c", "d", "e", "f" }

HexVal(c) == IF c \in { "a", "b", "c", "d", "e", "f" }
             THEN ByteOf(c) - 87
             ELSE (CHOOSE i \in DOMAIN HexDigits : HexDigits[i] = c) - 1

\* index of the first c in s, 0 when there is none
RECURSIVE FindFrom(_, _, _)
FindFrom(s, c, i) == IF i > Len(s) THEN 0
                     ELSE IF s[i] = c THEN i
                     ELSE FindFrom(s, c, i + 1)

Find(s, c) == FindFrom(s, c, 1)

\* str::split
RECURSIVE Split(_, _)
Split(s, c) == LET i == Find(s, c)
               IN IF i = 0 THEN << s >>
                  ELSE << SubSeq(s, 1, i - 1) >> \o Split(SubSeq(s, i + 1, Len(s)), c)

\* all texts over A of length at most n
RECURSIVE Texts(_, _)
Texts(A, n) == IF n = 0 THEN { << >> }
               ELSE LET T == Texts(A, n - 1)
                    IN T \cup { Append(t, c) : t \in { x \in T : Len(x) = n - 1 }, c \in A }

(***************************************************************************)
(* Request URL: the library's prepare_url and main's format!.              *)
(***************************************************************************)
BASE_URL ==
  << "h", "t", "t", "p", "s", ":", "/", "/", "a", "p", "i", ".", "w", "e",
     "a", "t", "h", "e", "r", "a", "p", "i", ".", "c", "o", "m", "/", "v",
     "1", "/", "c", "u", "r", "r", "e", "n", "t", ".", "j", "s", "o", "n" >>

\* form_urlencoded::byte_serialize, one byte
ByteSerialize(b) ==
    LET c == CharOf(b)
    IN IF b < 128 /\ \/ c \in { "*", "-", ".", "_" }
                     \/ (b >= 48 /\ b <= 57)
                     \/ (b >= 65 /\ b <= 90)
                     \/ (b >= 97 /\ b <= 122)
       THEN << c >>
       ELSE IF b = 32 THEN << "+" >>
       ELSE << "%", HexDigits[(b \div 16) + 1], HexDigits[(b % 16) + 1] >>

RECURSIVE SerializeBytes(_)
SerializeBytes(bs) == IF bs = << >> THEN << >>
                      ELSE ByteSerialize(Head(bs)) \o SerializeBytes(Tail(bs))

\* the application/x-www-form-urlencoded serialisation of one text
FormEncode(s) == SerializeBytes(Utf8Bytes(s))

\* url::Url::parse: an absolute URL needs a scheme (letters, then ':')
UrlParseOk(s) ==
    LET i == Find(s, ":")
    IN /\ i > 1
       /\ \A j \in 1..(i - 1) : ByteOf(s[j]) >= 97 /\ ByteOf(s[j]) <= 122

\* Url::parse_with_params(base, [("key", k), ("q", l)]) then to_string
ParseWithParams(base, k, l) ==
    IF UrlParseOk(base)
    THEN [ ok |-> TRUE,
           v |-> base \o << "?", "k", "e", "y", "=" >> \o FormEncode(k)
                      \o << "&", "q", "=" >> \o FormEncode(l) ]
    ELSE [ ok |-> FALSE, v |-> << >> ]

\* WeatherAPI::prepare_url
prepare_url(k, l) == ParseWithParams(BASE_URL, k, l)

\* main: format!("https://api.weatherapi.com/v1/current.json?key={}&q={}&aqi=no", ..)
AqiSuffix == << "&", "a", "q", "i", "=", "n", "o" >>

\* a mutant of format_url: the fixed aqi flag left out
format_url_no_aqi(k, l) ==
    BASE_URL \o << "?", "k", "e", "y", "=" >> \o k \o << "&", "q", "=" >> \o l

format_url(k, l) ==
    BASE_URL \o << "?", "k", "e", "y", "=" >> \o k \o << "&", "q", "=" >> \o l \o AqiSuffix

(***************************************************************************)
(* How the receiver of a URL reads it: the fragment starts at the first    *)
(* '#', the query runs from the first '?' to the fragment, and the query   *)
(* is a form-urlencoded list of name=value pairs.                          *)
(***************************************************************************)
HasFragment(u) == Find(u, "#") # 0

BeforeFragment(u) == IF HasFragment(u) THEN SubSeq(u, 1, Find(u, "#") - 1) ELSE u

QueryOf(u) == LET w == BeforeFragment(u)
                  i == Find(w, "?")
              IN IF i = 0 THEN << >> ELSE SubSeq(w, i + 1, Len(w))

\* percent_decode after replacing '+' by a space
RECURSIVE FormDecodeBytes(_)
FormDecodeBytes(s) ==
    IF s = << >> THEN << >>
    ELSE IF s[1] = "+" THEN << 32 >> \o FormDecodeBytes(Tail(s))
    ELSE IF s[1] = "%" /\ Len(s) >= 3 /\ IsHex(s[2]) /\ IsHex(s[3])
         THEN << 16 * HexVal(s[2]) + HexVal(s[3]) >> \o FormDecodeBytes(SubSeq(s, 4, Len(s)))
    ELSE Utf8(s[1]) \o FormDecodeBytes(Tail(s))

FormDecode(s) == Utf8Lossy(FormDecodeBytes(s))

DecodePair(p) == LET i == Find(p, "=")
                 IN IF i = 0 THEN << FormDecode(p), << >> >>
                    ELSE << FormDecode(SubSeq(p, 1, i - 1)),
                            FormDecode(SubSeq(p, i + 1, Len(p))) >>

\* form_urlencoded::parse: empty pieces are skipped
RECURSIVE DecodePieces(_)
DecodePieces(ps) ==
    IF ps = << >> THEN << >>
    ELSE IF Head(ps) = << >> THEN DecodePieces(Tail(ps))
    ELSE << DecodePair(Head(ps)) >> \o DecodePieces(Tail(ps))

QueryPairs(u) == DecodePieces(Split(QueryOf(u), "&"))

(***************************************************************************)
(* JSON values (serde_json::Value) and the text of a response body.        *)
(***************************************************************************)
JNull == [ t |-> "null" ]
JNum(n) == [ t |-> "num", n |-> n ]
JStr(s) == [ t |-> "str", s |-> s ]
JObj(f) == [ t |-> "obj", f |-> f ]

\* a body text that is not JSON
NotJson == [ t |-> "invalid" ]

\* serde_json::Value's Index<&str>: Null for a missing key or a non-object
Idx(v, k) == IF v.t = "obj" /\ k \in DOMAIN v.f THEN v.f[k] ELSE JNull

RECURSIVE Digits(_)
Digits(n) == IF n < 10 THEN << CharOf(48 + n) >>
             ELSE Digits(n \div 10) \o << CharOf(48 + (n % 10)) >>

RECURSIVE Escape(_)
Escape(s) == IF s = << >> THEN << >>
             ELSE IF Head(s) \in { "\"", "\\" } THEN << "\\", Head(s) >> \o Escape(Tail(s))
             ELSE << Head(s) >> \o Escape(Tail(s))

\* a mutant of to_string: a JSON string rendered without its quotes (as_str)
to_string_unquoted(v) ==
    CASE v.t = "null" -> << "n", "u", "l", "l" >>
      [] v.t = "num" -> IF v.n < 0 THEN << "-" >> \o Digits(0 - v.n) ELSE Digits(v.n)
      [] v.t = "str" -> v.s

\* <serde_json::Value as Display>::to_string: the compact JSON text of the value
to_string(v) ==
    CASE v.t = "null" -> << "n", "u", "l", "l" >>
      [] v.t = "num" -> IF v.n < 0 THEN << "-" >> \o Digits(0 - v.n) ELSE Digits(v.n)
      [] v.t = "str" -> << "\"" >> \o Escape(v.s) \o << "\"" >>

(***************************************************************************)
(* The typed data model and its derived Deserialize.                       *)
(***************************************************************************)
Payload(v) == IF v.t = "num" THEN v.n ELSE v.s

\* a derived Deserialize of a struct of String and f32 fields: every field
\* present with its type, unknown fields ignored
FieldsOk(v, strs, nums) ==
    /\ v.t = "obj"
    /\ \A k \in strs : k \in DOMAIN v.f /\ v.f[k].t = "str"
    /\ \A k \in nums : k \in DOMAIN v.f /\ v.f[k].t = "num"

FieldsOf(v, ks) == [ k \in ks |-> Payload(v.f[k]) ]

ConditionStr == { "text", "icon" }
LocationStr == { "name", "region", "country" }
LocationNum == { "lat", "lon" }
CurrentStr == { "wind_dir" }
CurrentNum == { "temp_c", "temp_f", "feelslike_c", "feelslike_f", "wind_mph",
                "wind_kph", "wind_degree", "pressure_mb", "pressure_in" }

ConditionOk(v) == FieldsOk(v, ConditionStr, {})
LocationOk(v) == FieldsOk(v, LocationStr, LocationNum)
CurrentOk(v) == /\ FieldsOk(v, CurrentStr, CurrentNum)
                /\ "condition" \in DOMAIN v.f
                /\ ConditionOk(v.f["condition"])

\* Response: Deserialize
ResponseOk(v) == /\ v.t = "obj"
                 /\ "location" \in DOMAIN v.f /\ LocationOk(v.f["location"])
                 /\ "current" \in DOMAIN v.f /\ CurrentOk(v.f["current"])

ResponseOf(v) ==
    [ location |-> FieldsOf(v.f["location"], LocationStr \cup LocationNum),
      current |-> [ fields |-> FieldsOf(v.f["current"], CurrentStr \cup CurrentNum),
                    condition |-> FieldsOf(v.f["current"].f["condition"], ConditionStr) ] ]

\* main.rs: WeatherData, WeatherLocation, WeatherCurrent, WeatherCondition
WeatherConditionStr == { "text", "icon" }
WeatherLocationStr == { "name", "region", "country" }
WeatherLocationNum == { "lat", "lon" }
WeatherCurrentStr == { "wind_dir" }
WeatherCurrentNum == { "temp_c", "temp_f", "feelslike_c", "feelslike_f", "wind_mph",
                       "wind_kph", "wind_degree", "pressure_mb", "pressure_in" }

WeatherDataOk(v) ==
    /\ v.t = "obj"
    /\ "location" \in DOMAIN v.f
    /\ FieldsOk(v.f["location"], WeatherLocationStr, WeatherLocationNum)
    /\ "current" \in DOMAIN v.f
    /\ FieldsOk(v.f["current"], WeatherCurrentStr, WeatherCurrentNum)
    /\ "condition" \in DOMAIN v.f["current"].f
    /\ FieldsOk(v.f["current"].f["condition"], WeatherConditionStr, {})

WeatherDataOf(v) ==
    [ location |-> FieldsOf(v.f["location"], WeatherLocationStr \cup WeatherLocationNum),
      current |-> [ fields |-> FieldsOf(v.f["current"], WeatherCurrentStr \cup WeatherCurrentNum),
                    condition |-> FieldsOf(v.f["current"].f["condition"], WeatherConditionStr) ] ]

(***************************************************************************)
(* Errors and results.                                                     *)
(***************************************************************************)
NoValue == [ none |-> TRUE ]
NoErr == [ kind |-> "none", msg |-> "" ]

BadRequest(m) == [ kind |-> "BadRequest", msg |-> m ]

\* the #[from] conversions of enum Error: what `?` makes of each source error
ErrFrom(src) ==
    CASE src = "url::ParseError" -> [ kind |-> "UrlParsing", msg |-> "" ]
      [] src = "ureq::Error" -> [ kind |-> "RequestFailed", msg |-> "" ]
      [] src = "std::io::Error" -> [ kind |-> "FailedResponseToString", msg |-> "" ]
      [] src = "serde_json::Error" -> [ kind |-> "DataParseFailed", msg |-> "" ]

Ok(v) == [ ok |-> TRUE, value |-> v, err |-> NoErr ]
Failure(e) == [ ok |-> FALSE, value |-> NoValue, err |-> e ]
Pending == [ ok |-> FALSE, value |-> NoValue, err |-> [ kind |-> "pending", msg |-> "" ] ]

\* get_data returns Result<WeatherData, Box<dyn Error>>: the boxed error keeps its type
BoxedOk(v) == [ ok |-> TRUE, value |-> v, src |-> "none" ]
BoxedErr(src) == [ ok |-> FALSE, value |-> NoValue, src |-> src ]
BoxedPending == [ ok |-> FALSE, value |-> NoValue, src |-> "pending" ]

None == [ some |-> FALSE, v |-> << >> ]
Some(s) == [ some |-> TRUE, v |-> s ]
NotCalled == [ called |-> FALSE, arg |-> None ]
CalledWith(c) == [ called |-> TRUE, arg |-> c ]

IsPrefix(p, s) == Len(p) <= Len(s) /\ SubSeq(s, 1, Len(p)) = p

\* a mutant of map_response_err: the table matched by prefix (starts_with)
map_response_err_prefix(c) ==
    IF c.some
    THEN CASE IsPrefix(<< "1", "0", "0", "2" >>, c.v) -> BadRequest("API key not provided")
           [] IsPrefix(<< "1", "0", "0", "3" >>, c.v) -> BadRequest("Parameter 'q' not provided")
           [] IsPrefix(<< "1", "0", "0", "5" >>, c.v) -> BadRequest("API request url is invalid")
           [] IsPrefix(<< "1", "0", "0", "6" >>, c.v) -> BadRequest("No location found matching parameter 'q'")
           [] IsPrefix(<< "2", "0", "0", "6" >>, c.v) -> BadRequest("API key provided is invalid")
           [] IsPrefix(<< "2", "0", "0", "7" >>, c.v) -> BadRequest("API key has exceeded calls per month quota")
           [] IsPrefix(<< "2", "0", "0", "8" >>, c.v) -> BadRequest("API key has been disabled")
           [] IsPrefix(<< "2", "0", "0", "9" >>, c.v) -> BadRequest("API key does not have access to the resource. Please check pricing page for what is allowed in your API subscription plan")
           [] IsPrefix(<< "9", "0", "0", "0" >>, c.v) -> BadRequest("Json body passed in bulk request is invalid. Please make sure it is valid json with utf-8 encoding")
           [] IsPrefix(<< "9", "0", "0", "1" >>, c.v) -> BadRequest("Json body contains too many locations for bulk request. Please keep it below 50 in a single request")
           [] IsPrefix(<< "9", "9", "9", "9" >>, c.v) -> BadRequest("Internal application error")
           [] OTHER -> BadRequest("Unknown error")
    ELSE BadRequest("Unknown error")

\* map_response_err
map_response_err(c) ==
    IF c.some
    THEN CASE c.v = << "1", "0", "0", "2" >> -> BadRequest("API key not provided")
           [] c.v = << "1", "0", "0", "3" >> -> BadRequest("Parameter 'q' not provided")
           [] c.v = << "1", "0", "0", "5" >> -> BadRequest("API request url is invalid")
           [] c.v = << "1", "0", "0", "6" >> -> BadRequest("No location found matching parameter 'q'")
           [] c.v = << "2", "0", "0", "6" >> -> BadRequest("API key provided is invalid")
           [] c.v = << "2", "0", "0", "7" >> -> BadRequest("API key has exceeded calls per month quota")
           [] c.v = << "2", "0", "0", "8" >> -> BadRequest("API key has been disabled")
           [] c.v = << "2", "0", "0", "9" >> -> BadRequest("API key does not have access to the resource. Please check pricing page for what is allowed in your API subscription plan")
           [] c.v = << "9", "0", "0", "0" >> -> BadRequest("Json body passed in bulk request is invalid. Please make sure it is valid json with utf-8 encoding")
           [] c.v = << "9", "0", "0", "1" >> -> BadRequest("Json body contains too many locations for bulk request. Please keep it below 50 in a single request")
           [] c.v = << "9", "9", "9", "9" >> -> BadRequest("Internal application error")
           [] OTHER -> BadRequest("Unknown error")
    ELSE BadRequest("Unknown error")

(***************************************************************************)
(* The transport (ureq 2.x) as the code uses it.                           *)
(***************************************************************************)
\* what the network does with one GET: no response at all, or a status and a body
TransportFailure == [ answered |-> FALSE, status |-> 0,
                      body |-> [ readable |-> FALSE, json |-> NotJson ] ]
Http(st, b) == [ answered |-> TRUE, status |-> st, body |-> b ]

\* a mutant of ureq_call: every outcome handed back as a response (ureq 1.x style)
ureq_call_lenient(n) == [ ok |-> TRUE, v |-> [ status |-> n.status, body |-> n.body ] ]

\* ureq::Request::call: Err(Error::Transport) when no response was obtained,
\* Err(Error::Status) for a status of 400 and above, Ok(response) otherwise
ureq_call(n) ==
    IF ~n.answered THEN [ ok |-> FALSE, v |-> [ status |-> 0, body |-> n.body ] ]
    ELSE IF n.status >= 400 THEN [ ok |-> FALSE, v |-> [ status |-> n.status, body |-> n.body ] ]
    ELSE [ ok |-> TRUE, v |-> [ status |-> n.status, body |-> n.body ] ]

\* ureq::Response::into_json::<serde_json::Value>: io::Result, a body that is
\* not JSON is an io::Error of kind InvalidData
into_json_value(r) ==
    IF r.body.readable /\ r.body.json # NotJson
    THEN [ ok |-> TRUE, v |-> r.body.json ]
    ELSE [ ok |-> FALSE, v |-> JNull ]

\* ureq::Response::into_json::<Response>
into_json_response(r) ==
    IF r.body.readable /\ r.body.json # NotJson /\ ResponseOk(r.body.json)
    THEN [ ok |-> TRUE, v |-> ResponseOf(r.body.json) ]
    ELSE [ ok |-> FALSE, v |-> NoValue ]

\* ureq::Response::into_string
into_string(r) ==
    IF r.body.readable THEN [ ok |-> TRUE, v |-> r.body.json ]
    ELSE [ ok |-> FALSE, v |-> NotJson ]

\* serde_json::from_str::<WeatherData>
from_str_weather_data(text) ==
    IF text # NotJson /\ WeatherDataOk(text)
    THEN [ ok |-> TRUE, v |-> WeatherDataOf(text) ]
    ELSE [ ok |-> FALSE, v |-> NoValue ]

\* WeatherAPI::fetch as one function of the client's fields and the transport's answer
FetchOutcome(k, l, n) ==
    LET u == prepare_url(k, l)
        r == ureq_call(n)
    IN IF ~u.ok THEN Failure(ErrFrom("url::ParseError"))
       ELSE IF ~r.ok THEN Failure(ErrFrom("ureq::Error"))
       ELSE IF r.v.status = 200
            THEN LET j == into_json_response(r.v)
                 IN IF j.ok THEN Ok(j.v) ELSE Failure(ErrFrom("std::io::Error"))
            ELSE LET j == into_json_value(r.v)
                 IN IF j.ok
                    THEN Failure(map_response_err(Some(to_string(Idx(Idx(j.v, "error"), "code")))))
                    ELSE Failure(ErrFrom("std::io::Error"))

(***************************************************************************)
(* The inputs the model draws from.                                        *)
(***************************************************************************)
KeyAlphabet == { "k", "&" }
LocAlphabet == { "a", " ", "&", "#", "=", "+", "%", NonAscii }

ApiKeys == Texts(KeyAlphabet, MaxKeyLen) \ { << >> }
Locations == Texts(LocAlphabet, MaxLocLen)

ConditionJson == JObj([ text |-> JStr(<< "S", "u", "n" >>), icon |-> JStr(<< "/", "i" >>),
                        code |-> JNum(1000) ])
LocationJson(d) == JObj([ name |-> JStr(<< "O", "s", "l", "o" >>), region |-> JStr(<< "O" >>),
                          country |-> JStr(<< "N", "O" >>), lat |-> JNum(59 + d),
                          lon |-> JNum(10 + d), tz_id |-> JStr(<< "E" >>) ])
CurrentJson(d) == JObj([ temp_c |-> JNum(d), temp_f |-> JNum(32 + 2 * d),
                         feelslike_c |-> JNum(d - 1), feelslike_f |-> JNum(30 + 2 * d),
                         wind_mph |-> JNum(5), wind_kph |-> JNum(8), wind_degree |-> JNum(270),
                         wind_dir |-> JStr(<< "W" >>), condition |-> ConditionJson,
                         pressure_mb |-> JNum(1012), pressure_in |-> JNum(29),
                         is_day |-> JNum(1) ])
WeatherJson(d) == JObj([ location |-> LocationJson(d), current |-> CurrentJson(d) ])
NoCurrentJson == JObj([ location |-> LocationJson(1) ])
BadLatJson == JObj([ location |-> JObj([ name |-> JStr(<< "O", "s", "l", "o" >>),
                                         region |-> JStr(<< "O" >>),
                                         country |-> JStr(<< "N", "O" >>),
                                         lat |-> JStr(<< "5", "9" >>), lon |-> JNum(10) ]),
                     current |-> CurrentJson(1) ])
ErrorJson(c) == JObj([ error |-> JObj([ code |-> c, message |-> JStr(<< "m" >>) ]) ])
ErrorNoCodeJson == JObj([ error |-> JObj([ message |-> JStr(<< "m" >>) ]) ])
NoErrorJson == JObj([ message |-> JStr(<< "m" >>) ])

Str2006 == << "2", "0", "0", "6" >>
Str4242 == << "4", "2", "4", "2" >>

CodeValues == { JNum(1002), JNum(2006), JNum(4242), JStr(Str2006), JStr(Str4242) }

JsonTexts == { NotJson, WeatherJson(1), WeatherJson(2), NoCurrentJson, BadLatJson,
               ErrorNoCodeJson, NoErrorJson } \cup { ErrorJson(c) : c \in CodeValues }

Bodies == { [ readable |-> FALSE, json |-> NotJson ] }
          \cup { [ readable |-> TRUE, json |-> j ] : j \in JsonTexts }

Statuses == { 200, 202, 401, 500 }

Nets == { TransportFailure } \cup { Http(st, b) : st \in Statuses, b \in Bodies }

NoResponse == [ status |-> 0, body |-> [ readable |-> FALSE, json |-> NotJson ] ]

(***************************************************************************)
(* WeatherAPI: new and the steps of fetch.                                 *)
(***************************************************************************)
\* WeatherAPI::new
new(k, l) == [ api_key |-> k, location |-> l ]

clientVars == << given, api_key, location >>
inlineVars == << ipc, iurl, itext, iresult >>
mapVars == << mpc, mcode, mresult >>

\* fetch: let url = self.prepare_url()?
PrepareUrl ==
    /\ pc = "start"
    /\ LET u == prepare_url(api_key, location)
       IN IF u.ok
          THEN /\ url' = u.v
               /\ pc' = "url"
               /\ UNCHANGED result
          ELSE /\ result' = Failure(ErrFrom("url::ParseError"))
               /\ pc' = "done"
               /\ UNCHANGED url
    /\ trace' = Append(trace, "prepare_url")
    /\ UNCHANGED << clientVars, net, history, response, code, gets, branch, constructed,
                    inlineVars, mapVars >>

\* a mutant of Call: a failed GET is issued a second time before giving up
CallRetry ==
    /\ pc = "url"
    /\ LET r == ureq_call(net)
       IN IF r.ok
          THEN /\ response' = r.v
               /\ pc' = "status"
               /\ gets' = gets + 1
               /\ UNCHANGED result
          ELSE /\ result' = Failure(ErrFrom("ureq::Error"))
               /\ pc' = "done"
               /\ gets' = gets + 2
               /\ UNCHANGED response
    /\ trace' = Append(trace, "call")
    /\ UNCHANGED << clientVars, net, history, url, code, branch, constructed,
                    inlineVars, mapVars >>

\* fetch: let response = ureq::get(&url).call()?
Call ==
    /\ pc = "url"
    /\ LET r == ureq_call(net)
       IN IF r.ok
          THEN /\ response' = r.v
               /\ pc' = "status"
               /\ UNCHANGED result
          ELSE /\ result' = Failure(ErrFrom("ureq::Error"))
               /\ pc' = "done"
               /\ UNCHANGED response
    /\ gets' = gets + 1
    /\ trace' = Append(trace, "call")
    /\ UNCHANGED << clientVars, net, history, url, code, branch, constructed,
                    inlineVars, mapVars >>

\* fetch: the arm `200 =>`
Match200 ==
    /\ pc = "status"
    /\ response.status = 200
    /\ branch' = "200"
    /\ LET j == into_json_response(response)
       IN IF j.ok
          THEN /\ constructed' = TRUE
               /\ result' = Ok(j.v)
          ELSE /\ result' = Failure(ErrFrom("std::io::Error"))
               /\ UNCHANGED constructed
    /\ pc' = "done"
    /\ trace' = Append(trace, "match")
    /\ UNCHANGED << clientVars, net, history, url, response, code, gets,
                    inlineVars, mapVars >>

\* a mutant of MatchOther: a rejected request also clears the stored key
MatchOtherForgetsKey ==
    /\ pc = "status"
    /\ response.status # 200
    /\ branch' = "other"
    /\ LET j == into_json_value(response)
       IN IF j.ok
          THEN /\ code' = CalledWith(Some(to_string(Idx(Idx(j.v, "error"), "code"))))
               /\ result' = Failure(map_response_err(code'.arg))
          ELSE /\ result' = Failure(ErrFrom("std::io::Error"))
               /\ UNCHANGED code
    /\ api_key' = << >>
    /\ pc' = "done"
    /\ trace' = Append(trace, "match")
    /\ UNCHANGED << given, location, net, history, url, response, gets, constructed,
                    inlineVars, mapVars >>

\* fetch: the arm `_ =>`
MatchOther ==
    /\ pc = "status"
    /\ response.status # 200
    /\ branch' = "other"
    /\ LET j == into_json_value(response)
       IN IF j.ok
          THEN /\ code' = CalledWith(Some(to_string(Idx(Idx(j.v, "error"), "code"))))
               /\ result' = Failure(map_response_err(code'.arg))
          ELSE /\ result' = Failure(ErrFrom("std::io::Error"))
               /\ UNCHANGED code
    /\ pc' = "done"
    /\ trace' = Append(trace, "match")
    /\ UNCHANGED << clientVars, net, history, url, response, gets, constructed,
                    inlineVars, mapVars >>

\* the caller calls fetch again on the same client; the transport answers n
FetchAgain(n) ==
    /\ pc = "done"
    /\ Len(history) + 1 < MaxCalls
    /\ history' = Append(history, result.ok)
    /\ net' = n
    /\ pc' = "start"
    /\ url' = << >>
    /\ response' = NoResponse
    /\ code' = NotCalled
    /\ result' = Pending
    /\ gets' = 0
    /\ trace' = << >>
    /\ branch' = "none"
    /\ constructed' = FALSE
    /\ UNCHANGED << clientVars, inlineVars, mapVars >>

(***************************************************************************)
(* The inline version: main and get_data.                                  *)
(***************************************************************************)
\* main: let url = format!(...)
MainUrl ==
    /\ ipc = "start"
    /\ iurl' = format_url(given[1], given[2])
    /\ ipc' = "url"
    /\ UNCHANGED << clientVars, net, history, pc, url, response, code, result, gets, trace,
                    branch, constructed, itext, iresult, mapVars >>

\* get_data: let resp = ureq::get(url).call()?.into_string()?
GetDataCall ==
    /\ ipc = "url"
    /\ LET r == ureq_call(net)
           t == into_string(r.v)
       IN IF ~r.ok
          THEN /\ iresult' = BoxedErr("ureq::Error")
               /\ ipc' = "done"
               /\ UNCHANGED itext
          ELSE IF ~t.ok
          THEN /\ iresult' = BoxedErr("std::io::Error")
               /\ ipc' = "done"
               /\ UNCHANGED itext
          ELSE /\ itext' = t.v
               /\ ipc' = "text"
               /\ UNCHANGED iresult
    /\ UNCHANGED << clientVars, net, history, pc, url, response, code, result, gets, trace,
                    branch, constructed, iurl, mapVars >>

\* get_data: let weather_data: WeatherData = serde_json::from_str(&resp)?
GetDataParse ==
    /\ ipc = "text"
    /\ LET d == from_str_weather_data(itext)
       IN iresult' = IF d.ok THEN BoxedOk(d.v) ELSE BoxedErr("serde_json::Error")
    /\ ipc' = "done"
    /\ UNCHANGED << clientVars, net, history, pc, url, response, code, result, gets, trace,
                    branch, constructed, iurl, itext, mapVars >>

(***************************************************************************)
(* A direct call of map_response_err.                                      *)
(***************************************************************************)
MapCall ==
    /\ mpc = "start"
    /\ mresult' = map_response_err(mcode)
    /\ mpc' = "done"
    /\ UNCHANGED << clientVars, net, history, pc, url, response, code, result, gets, trace,
                    branch, constructed, inlineVars, mcode >>

(***************************************************************************)
(* Specifications.                                                         *)
(***************************************************************************)
Digit == { "0", "1", "2", "3", "4", "5", "6", "7", "8", "9" }

TableCodes == { << "1", "0", "0", "2" >>, << "1", "0", "0", "3" >>, << "1", "0", "0", "5" >>,
                << "1", "0", "0", "6" >>, << "2", "0", "0", "6" >>, << "2", "0", "0", "7" >>,
                << "2", "0", "0", "8" >>, << "2", "0", "0", "9" >>, << "9", "0", "0", "0" >>,
                << "9", "0", "0", "1" >>, << "9", "9", "9", "9" >> }

CodeTexts == Texts(Digit, MaxCodeLen)
             \cup { Append(t, d) : t \in TableCodes, d \in Digit }
             \cup { << "n", "u", "l", "l" >>, << "\"" >> \o Str2006 \o << "\"" >> }

MapInputs == { None } \cup { Some(s) : s \in CodeTexts }

FreshCall ==
    /\ history = << >>
    /\ pc = "start"
    /\ url = << >>
    /\ response = NoResponse
    /\ code = NotCalled
    /\ result = Pending
    /\ gets = 0
    /\ trace = << >>
    /\ branch = "none"
    /\ constructed = FALSE

FreshInline ==
    /\ ipc = "start"
    /\ iurl = << >>
    /\ itext = NotJson
    /\ iresult = BoxedPending

NoMapCall ==
    /\ mpc = "idle"
    /\ mcode = None
    /\ mresult = NoErr

Constructed(k, l) ==
    /\ given = << k, l >>
    /\ api_key = new(k, l).api_key
    /\ location = new(k, l).location

\* one client and one run of the inline program, against the same transport answer
Init ==
    /\ \E k \in ApiKeys, l \in Locations : Constructed(k, l)
    /\ net \in Nets
    /\ FreshCall
    /\ FreshInline
    /\ NoMapCall

Next ==
    \/ PrepareUrl
    \/ Call
    \/ Match200
    \/ MatchOther
    \/ MainUrl
    \/ GetDataCall
    \/ GetDataParse

Spec == Init /\ [][Next]_vars

\* one client reused for several fetch calls
InitCalls ==
    /\ \E k \in { << "k" >>, << "k", "&" >> }, l \in { << "a" >>, << " ", NonAscii >> } :
          Constructed(k, l)
    /\ net \in Nets
    /\ FreshCall
    /\ FreshInline
    /\ NoMapCall

NextCalls ==
    \/ PrepareUrl
    \/ Call
    \/ Match200
    \/ MatchOther
    \/ \E n \in Nets : FetchAgain(n)

SpecCalls == InitCalls /\ [][NextCalls]_vars

\* map_response_err applied to each input
InitMap ==
    /\ Constructed(<< "k" >>, << "a" >>)
    /\ net = TransportFailure
    /\ FreshCall
    /\ FreshInline
    /\ mpc = "start"
    /\ mcode \in MapInputs
    /\ mresult = NoErr

NextMap == MapCall

SpecMap == InitMap /\ [][NextMap]_vars

(***************************************************************************)
(* Properties.                                                             *)
(***************************************************************************)
KeyName == << "k", "e", "y" >>
QName == << "q" >>
AqiPair == << << "a", "q", "i" >>, << "n", "o" >> >>

Answered200 == net.answered /\ net.status = 200
AnsweredOther == net.answered /\ net.status # 200
JsonBody == net.body.readable /\ net.body.json # NotJson

\* C1: a non-200 response whose body carries error.code as the JSON string "2006"
\* makes fetch return BadRequest("API key provided is invalid").
C1_StringCode2006 ==
    (pc = "done" /\ AnsweredOther /\ net.body.readable /\ net.body.json = ErrorJson(JStr(Str2006)))
        => result = Failure(BadRequest("API key provided is invalid"))

\* C2: for every response with a status other than 200 (4xx and 5xx included) fetch
\* returns the BadRequest error mapped from error.code, or DataParseFailed when the
\* body is not JSON, and never RequestFailed.
C2_Non200Mapped ==
    (pc = "done" /\ AnsweredOther /\ net.body.readable)
        => /\ result.err.kind # "RequestFailed"
           /\ net.body.json # NotJson
                 => result = Failure(map_response_err(
                                Some(to_string(Idx(Idx(net.body.json, "error"), "code")))))
           /\ net.body.json = NotJson => result.err.kind = "DataParseFailed"

\* C3: a 200 response whose JSON body lacks a required field (no `current` key) makes
\* fetch fail with DataParseFailed, and no Response value is returned or built.
C3_MissingFieldIsDataParseFailed ==
    (pc = "done" /\ Answered200 /\ net.body.readable /\ net.body.json = NoCurrentJson)
        => /\ ~result.ok
           /\ ~constructed
           /\ result.err.kind = "DataParseFailed"

\* C4: when the transport fails before a response is obtained, fetch returns
\* RequestFailed, the status match is never entered and no Response is constructed.
C4_TransportFailure ==
    ~net.answered
        => /\ branch = "none"
           /\ ~constructed
           /\ pc # "status"
           /\ pc = "done" => result = Failure([ kind |-> "RequestFailed", msg |-> "" ])

C4_Witness == pc = "done" /\ ~net.answered /\ gets = 1

\* the library's prepare_url alone: its query decodes back to exactly key and q
PrepareUrlRoundTrip ==
    pc \in { "url", "status", "done" }
        => /\ QueryPairs(url) = << << KeyName, given[1] >>, << QName, given[2] >> >>
           /\ ~HasFragment(url)

\* C5: for any api_key and location the URL built by the request builder (prepare_url
\* in the library, format! in main) has a query whose key and q parameters decode back
\* to exactly the original values, with no extra parameter and no fragment.
C5_QueryRoundTrip ==
    /\ PrepareUrlRoundTrip
    /\ ipc # "start"
          => /\ QueryPairs(iurl) = << << KeyName, given[1] >>, << QName, given[2] >>, AqiPair >>
             /\ ~HasFragment(iurl)

\* C6: the lookup is an exact match: every code that is not one of the eleven table
\* codes, and an absent code, maps to BadRequest("Unknown error"); each table code
\* maps to its own fixed message.
C6_ExactMatch ==
    mpc = "done"
        => /\ mresult.kind = "BadRequest"
           /\ (mresult.msg = "Unknown error") <=> ~(mcode.some /\ mcode.v \in TableCodes)
           /\ mcode = Some(Str2006) => mresult.msg = "API key provided is invalid"
           /\ (mcode.some /\ mcode.v \in TableCodes)
                 => \A t \in TableCodes \ { mcode.v } :
                        map_response_err(Some(t)).msg # mresult.msg

C6_Witness ==
    /\ mpc = "done"
    /\ mcode = Some(<< "1", "0", "0", "2", "0" >>)
    /\ mresult = BadRequest("Unknown error")

\* the source error type a library error kind is converted from
SourceOf(kind) ==
    CASE kind = "UrlParsing" -> "url::ParseError"
      [] kind = "RequestFailed" -> "ureq::Error"
      [] kind = "FailedResponseToString" -> "std::io::Error"
      [] kind = "DataParseFailed" -> "serde_json::Error"
      [] OTHER -> "built in place"

SameOutcome ==
    IF result.ok
    THEN iresult.ok /\ iresult.value = result.value
    ELSE ~iresult.ok /\ iresult.src = SourceOf(result.err.kind)

BothUrlsBuilt == pc \in { "url", "status", "done" } /\ ipc # "start"
BothDone == pc = "done" /\ ipc = "done"

\* C7 as stated: the inline and the library version send the same request URL and
\* produce the same outcome for the same api_key, location and transport response.
C7_Identical ==
    /\ BothUrlsBuilt => iurl = url
    /\ BothDone => SameOutcome

PlainChars == { Ascii[i] : i \in { j \in DOMAIN Ascii :
                    \/ (j + 31 >= 48 /\ j + 31 <= 57)
                    \/ (j + 31 >= 65 /\ j + 31 <= 90)
                    \/ (j + 31 >= 97 /\ j + 31 <= 122) } }
              \cup { "*", "-", ".", "_" }

Plain(s) == \A i \in DOMAIN s : s[i] \in PlainChars

EndsWith(s, t) == Len(s) >= Len(t) /\ SubSeq(s, Len(s) - Len(t) + 1, Len(s)) = t

\* both fail with the transport's error, both fail reading the body, or both parse a
\* 200 body that matches the schema
AgreeCase ==
    \/ ~net.answered
    \/ net.status >= 400
    \/ ~net.body.readable
    \/ (net.status = 200 /\ net.body.json # NotJson /\ ResponseOk(net.body.json))

\* C7, amended: the inline URL is the raw values followed by &aqi=no, never the
\* library's URL, and equals it up to that suffix exactly when neither value needs
\* encoding; the two outcomes are the same exactly on a transport failure, a status of
\* 400 and above, an unreadable body, or a 200 body matching the schema.
C7_Amended ==
    /\ BothUrlsBuilt
          => /\ iurl # url
             /\ EndsWith(iurl, AqiSuffix)
             /\ (SubSeq(iurl, 1, Len(iurl) - Len(AqiSuffix)) = url)
                   <=> (Plain(given[1]) /\ Plain(given[2]))
    /\ BothDone => (SameOutcome <=> AgreeCase)

C7_Witness ==
    /\ BothDone
    /\ result.ok
    /\ iresult.ok
    /\ given[2] = << " " >>
    /\ SubSeq(iurl, 1, Len(iurl) - Len(AqiSuffix)) # url

\* C8: after any sequence of fetch calls on one client its api_key and location equal
\* the values given to new, and the result of each call is a function of those two
\* values and of the transport's answer to that call alone.
C8_Stateless ==
    /\ api_key = given[1]
    /\ location = given[2]
    /\ pc = "done" => result = FetchOutcome(given[1], given[2], net)

C8_Witness ==
    /\ pc = "done"
    /\ Len(history) >= 1
    /\ ~history[1]
    /\ result.ok

RECURSIVE DecValue(_)
DecValue(s) == IF s = << >> THEN 0
               ELSE 10 * DecValue(SubSeq(s, 1, Len(s) - 1)) + (ByteOf(s[Len(s)]) - 48)

IsDecimalOf(s, n) ==
    /\ Len(s) >= 1
    /\ \A i \in DOMAIN s : s[i] \in Digit
    /\ Len(s) > 1 => s[1] # "0"
    /\ DecValue(s) = n

CodeMissing(j) ==
    \/ j.t # "obj"
    \/ "error" \notin DOMAIN j.f
    \/ j.f["error"].t # "obj"
    \/ "code" \notin DOMAIN j.f["error"].f

====
